---- MODULE Spec2Model ----
(***************************************************************************)
(* Model of amcrest.http.Http: authentication negotiation at construction, *)
(* the retry-count -> session map guarded by _get_session_lock, the retry  *)
(* loop of command, and the single POST of command_audio.                  *)
(*                                                                         *)
(* One call of session.get / requests.get / requests.post is one step; its *)
(* outcome (a response with a status and a text, or a transport exception) *)
(* is chosen by the environment.                                           *)
(***************************************************************************)
EXTENDS Integers, Sequences, FiniteSets, TLC

\* ------------------------------------------------------------------ bounds
\* Largest explicit retry count a caller passes.
MaxRetry == 2
\* Explicit retry counts go down to -MaxNegRetry.
MaxNegRetry == 1
\* Number of threads sharing one client.
NumThreads == 2
\* Session objects the model lets exist for one key (the code creates one).
MaxObjectsPerKey == 2

\* Largest explicit timeout a caller passes.
MaxTimeout == 1

\* amcrest.config.MAX_RETRY_HTTP_CONNECTION, imported by http.py.
MAX_RETRY_HTTP_CONNECTION == 3
\* amcrest.config.TIMEOUT_HTTP_PROTOCOL, imported by http.py.
TIMEOUT_HTTP_PROTOCOL == 3

\* ------------------------------------------------------------ Python values
None == <<>>
Some(v) == <<v>>

\* `x or d` for an optional integer x: None and 0 are falsy.
PyOr(x, d) == IF x = None THEN d ELSE IF x[1] = 0 THEN d ELSE x[1]

\* Response.raise_for_status(): raises HTTPError for 4xx and 5xx.
raise_for_status(status) == 400 <= status /\ status < 600

\* str.lower() on the letters the response texts use.
LowerChar(c) ==
    CASE c = "A" -> "a" [] c = "D" -> "d" [] c = "E" -> "e" [] c = "I" -> "i"
      [] c = "K" -> "k" [] c = "L" -> "l" [] c = "N" -> "n" [] c = "O" -> "o"
      [] c = "R" -> "r" [] c = "V" -> "v" [] OTHER -> c
lower(text) == [i \in 1..Len(text) |-> LowerChar(text[i])]

\* `sub in text` for strings.
Contains(sub, text) ==
    \E i \in 1..(Len(text) - Len(sub) + 1) :
        SubSeq(text, i, i + Len(sub) - 1) = sub

\* The check without lower(): markers are found in lower case only.
InvalidCredentialsCaseSensitive(text) ==
    \/ Contains(<<"i", "n", "v", "a", "l", "i", "d">>, text)
    \/ Contains(<<"e", "r", "r", "o", "r">>, text)

\* The check of lines 89-90: 'invalid' in req.text.lower() or 'error' in ...
InvalidCredentials(text) ==
    \/ Contains(<<"i", "n", "v", "a", "l", "i", "d">>, lower(text))
    \/ Contains(<<"e", "r", "r", "o", "r">>, lower(text))

\* --------------------------------------------------------------- environment
Statuses == {200, 401, 500}
Texts ==
    { <<"O", "K">>,
      <<"I", "n", "v", "a", "l", "i", "d">>,
      <<"E", "R", "R", "O", "R">>,
      <<"e", "r", "r", "o", "r">> }
TransportErrors == {"ReadTimeout", "ConnectTimeout", "ConnectionError"}

\* What one HTTP request ends in: a response, or a requests exception that is not
\* an HTTPError.
Outcomes ==
    [exc : {"none"}, status : Statuses, text : Texts]
      \cup [exc : TransportErrors, status : {0}, text : {<<>>}]
\* command never reads the text of a response.
CommandOutcomes == {o \in Outcomes : o.exc # "none" \/ o.text = <<"O", "K">>}

Threads == 1..NumThreads
\* The thread that constructs the client.
Main == 1

RetryValues == (0 - MaxNegRetry)..MaxRetry
RetryArgs == {None} \cup {Some(r) : r \in RetryValues}
TimeoutArgs == {None} \cup {Some(s) : s \in 0..MaxTimeout}

VARIABLES
    cpc,                \* where Http.__init__ stands
    ctor_exc,           \* the exception __init__ raised, "none" otherwise
    probes,             \* the requests of _generate_token, in order
    _retries_default,
    _timeout_default,
    _authentication,
    _token,
    _name,
    _serial,
    _session,           \* dict: retry count -> session object
    _get_session_lock,  \* 0 when free, else the thread holding it
    objects,            \* every requests.Session() created so far
    requested,          \* every retry count _get_session was called with
    th                  \* per thread: the call in progress and its locals

vars == <<cpc, ctor_exc, probes, _retries_default, _timeout_default,
          _authentication, _token, _name, _serial, _session,
          _get_session_lock, objects, requested, th>>

client == <<_retries_default, _timeout_default, _authentication, _token, _name,
            _serial>>
pool == <<_session, _get_session_lock, objects>>
ctor == <<cpc, ctor_exc, probes>>

\* A thread that is in no call and has made none.
Idle ==
    [pc |-> "idle", op |-> "none", ctx |-> "user", arg |-> None, retries |-> 0,
     timeout_arg |-> None, timeout |-> 0,
     session |-> None, loop |-> 0, attempts |-> 0, fails |-> 0, posts |-> 0,
     resp |-> None, auth |-> "none", last |-> "none", result |-> "none",
     exc |-> "none", err |-> None, ret |-> None]

Init ==
    /\ cpc = "__init__"
    /\ ctor_exc = "none"
    /\ probes = <<>>
    /\ _retries_default = 0
    /\ _timeout_default = 0
    /\ _authentication = "unset"
    /\ _token = "unset"
    /\ _name = "unset"
    /\ _serial = "unset"
    /\ _session = <<>>
    /\ _get_session_lock = 0
    /\ objects = {}
    /\ requested = {}
    /\ th = [t \in Threads |-> Idle]

\* ------------------------------------------------------ Http.__init__ (45-65)
RetriesConnectionArgs == RetryArgs

\* _set_name called before _generate_token (lines 64 and 65 swapped).
Http__init__SetNameFirst(retries_connection, timeout_protocol) ==
    /\ cpc = "__init__"
    /\ _retries_default' = PyOr(retries_connection, MAX_RETRY_HTTP_CONNECTION)
    /\ _timeout_default' = PyOr(timeout_protocol, TIMEOUT_HTTP_PROTOCOL)
    /\ _session' = <<>>
    /\ _get_session_lock' = 0
    /\ cpc' = "_set_name"
    /\ UNCHANGED <<ctor_exc, probes, _authentication, _token, _name, _serial,
                   objects, requested, th>>

\* Lines 49-62: the configuration, the empty session dict and the lock.
Http__init__(retries_connection, timeout_protocol) ==
    /\ cpc = "__init__"
    /\ _retries_default' = PyOr(retries_connection, MAX_RETRY_HTTP_CONNECTION)
    /\ _timeout_default' = PyOr(timeout_protocol, TIMEOUT_HTTP_PROTOCOL)
    /\ _session' = <<>>
    /\ _get_session_lock' = 0
    /\ cpc' = "basic_probe"
    /\ UNCHANGED <<ctor_exc, probes, _authentication, _token, _name, _serial,
                   objects, requested, th>>

Probe(scheme, o) ==
    [scheme |-> scheme, exc |-> o.exc, status |-> o.status, text |-> o.text]

\* The Digest request made after every Basic response, failed or not.
AfterBasicAlwaysDigest(o) ==
    IF o.exc # "none" THEN "propagate" ELSE "except"

\* `except Exception` at line 81: every failure of the Basic probe falls back
\* to Digest.
AfterBasicCatchAll(o) ==
    IF o.exc # "none" THEN "except"
    ELSE IF raise_for_status(o.status) THEN "except"
    ELSE "return"

\* How the try block of lines 74-79 ends: "return" at line 93, the handler of
\* line 81, or an exception that leaves _generate_token.
AfterBasic(o) ==
    IF o.exc # "none" THEN "propagate"
    ELSE IF raise_for_status(o.status) THEN "except"
    ELSE "return"

\* Lines 76-79 (and 93, 64 when the probe succeeds).
BasicProbe(o) ==
    /\ cpc = "basic_probe"
    /\ _authentication' = "basic"
    /\ probes' = Append(probes, Probe("basic", o))
    /\ CASE AfterBasic(o) = "return" ->
              /\ _token' = "HTTPBasicAuth"
              /\ cpc' = "_set_name"
              /\ UNCHANGED ctor_exc
         [] AfterBasic(o) = "except" ->
              /\ cpc' = "digest_probe"
              /\ UNCHANGED <<_token, ctor_exc>>
         [] OTHER ->
              /\ cpc' = "failed"
              /\ ctor_exc' = o.exc
              /\ UNCHANGED _token
    /\ UNCHANGED <<_retries_default, _timeout_default, _name, _serial, pool,
                   requested, th>>

\* The exception lines 85-92 raise, "none" when line 93 is reached. The bare
\* raise of line 92 re-raises the HTTPError being handled.
AfterDigest(o) ==
    IF o.exc # "none" THEN o.exc
    ELSE IF raise_for_status(o.status) THEN "HTTPError"
    ELSE IF InvalidCredentials(o.text) THEN "HTTPError"
    ELSE "none"

\* The Digest probe repeated once after an HTTP error status.
DigestProbeRepeated(o) ==
    /\ cpc = "digest_probe"
    /\ _authentication' = "digest"
    /\ probes' = Append(probes, Probe("digest", o))
    /\ IF AfterDigest(o) = "none"
         THEN /\ _token' = "HTTPDigestAuth"
              /\ cpc' = "_set_name"
              /\ UNCHANGED ctor_exc
         ELSE IF Len(probes) < 2
         THEN UNCHANGED <<cpc, ctor_exc, _token>>
         ELSE /\ cpc' = "failed"
              /\ ctor_exc' = AfterDigest(o)
              /\ UNCHANGED _token
    /\ UNCHANGED <<_retries_default, _timeout_default, _name, _serial, pool,
                   requested, th>>

\* Lines 83-93 (and 64 when the probe succeeds).
DigestProbe(o) ==
    /\ cpc = "digest_probe"
    /\ _authentication' = "digest"
    /\ probes' = Append(probes, Probe("digest", o))
    /\ IF AfterDigest(o) = "none"
         THEN /\ _token' = "HTTPDigestAuth"
              /\ cpc' = "_set_name"
              /\ UNCHANGED ctor_exc
         ELSE /\ cpc' = "failed"
              /\ ctor_exc' = AfterDigest(o)
              /\ UNCHANGED _token
    /\ UNCHANGED <<_retries_default, _timeout_default, _name, _serial, pool,
                   requested, th>>

\* ------------------------------------------------------------ command (136-168)
\* Line 143.
EffectiveRetries(retries) == PyOr(retries, _retries_default)

\* Line 144.
EffectiveTimeout(timeout_cmd) == PyOr(timeout_cmd, _timeout_default)

\* Lines 143-146: a call of command up to its call of _get_session.
StartCommand(retries, timeout_cmd, ctx) ==
    [Idle EXCEPT !.pc = "enter", !.op = "command", !.ctx = ctx,
                 !.arg = retries, !.retries = EffectiveRetries(retries),
                 !.timeout_arg = timeout_cmd,
                 !.timeout = EffectiveTimeout(timeout_cmd)]

\* ------------------------------------------------------- _set_name (95-102)
\* The except clause of line 100.
SetNameCatches(exc) == exc = "AttributeError"

\* What reading a property of the device (machine_name, serial_number) raises
\* once its command call has ended: the exception of command, or
\* AttributeError when the field is absent.
PropertyExc(t, field) ==
    IF th[t].result = "raised" THEN th[t].exc
    ELSE IF field = "absent" THEN "AttributeError"
    ELSE "none"

\* Line 98, up to the command call of machine_name.
SetNameBegin ==
    /\ cpc = "_set_name"
    /\ cpc' = "machine_name"
    /\ th' = [th EXCEPT ![Main] = StartCommand(None, None, "machine_name")]
    /\ requested' = requested \cup {EffectiveRetries(None)}
    /\ UNCHANGED <<ctor_exc, probes, client, pool>>

\* Lines 100-102, or the exception leaving __init__.
SetNameRaised(exc) ==
    IF SetNameCatches(exc)
      THEN /\ _name' = "None"
           /\ _serial' = "None"
           /\ cpc' = "done"
           /\ UNCHANGED ctor_exc
      ELSE /\ cpc' = "failed"
           /\ ctor_exc' = exc
           /\ UNCHANGED <<_name, _serial>>

\* Line 98 from the end of machine_name's command, up to the command call of
\* serial_number in line 99.
MachineNameDone(field) ==
    /\ cpc = "machine_name"
    /\ th[Main].pc = "idle"
    /\ IF PropertyExc(Main, field) = "none"
         THEN /\ _name' = "name"
              /\ cpc' = "serial_number"
              /\ th' = [th EXCEPT ![Main] =
                          StartCommand(None, None, "serial_number")]
              /\ requested' = requested \cup {EffectiveRetries(None)}
              /\ UNCHANGED <<_serial, ctor_exc>>
         ELSE /\ SetNameRaised(PropertyExc(Main, field))
              /\ UNCHANGED <<th, requested>>
    /\ UNCHANGED <<probes, _retries_default, _timeout_default, _authentication,
                   _token, pool>>

\* Line 99 from the end of serial_number's command.
SerialNumberDone(field) ==
    /\ cpc = "serial_number"
    /\ th[Main].pc = "idle"
    /\ IF PropertyExc(Main, field) = "none"
         THEN /\ _serial' = "serial"
              /\ cpc' = "done"
              /\ UNCHANGED <<_name, ctor_exc>>
         ELSE SetNameRaised(PropertyExc(Main, field))
    /\ UNCHANGED <<probes, _retries_default, _timeout_default, _authentication,
                   _token, pool, requested, th>>

\* ---------------------------------------------------- _get_session (124-134)
\* No mutual exclusion: the with block is entered whoever holds the lock.
LockIgnored == TRUE

\* threading.Lock: `with self._get_session_lock` enters when the lock is free.
LockFree == _get_session_lock = 0

\* A direct call of _get_session(max_retries).
Call_get_session(t, max_retries) ==
    /\ cpc = "done"
    /\ th[t].pc = "idle"
    /\ th' = [th EXCEPT ![t] =
                [Idle EXCEPT !.pc = "enter", !.op = "_get_session",
                             !.retries = max_retries]]
    /\ requested' = requested \cup {max_retries}
    /\ UNCHANGED <<ctor, client, pool>>

\* Line 125: entering the with block.
AcquireLock(t) ==
    /\ th[t].pc = "enter"
    /\ LockFree
    /\ _get_session_lock' = t
    /\ th' = [th EXCEPT ![t].pc = "try"]
    /\ UNCHANGED <<ctor, client, _session, objects, requested>>

\* Lines 126-128: the lookup, which returns the cached session or raises
\* KeyError.
LookupSession(t) ==
    /\ th[t].pc = "try"
    /\ IF th[t].retries \in DOMAIN _session
         THEN th' = [th EXCEPT ![t].session = Some(_session[th[t].retries]),
                               ![t].pc = "exit"]
         ELSE th' = [th EXCEPT ![t].pc = "except"]
    /\ UNCHANGED <<ctor, client, pool, requested>>

ObjectsOf(key) == {o \in objects : o[1] = key}
\* requests.Session(): an object distinct from every one created before.
NewSession(key) == <<key, Cardinality(ObjectsOf(key)) + 1>>

\* The dict rebuilt with the new entry only.
StoreSessionReset(key, session) == (key :> session)

\* Line 133: self._session[max_retries] = session.
StoreSession(key, session) == (key :> session) @@ _session

\* Lines 129-134: create, mount and store a session.
CreateSession(t) ==
    /\ th[t].pc = "except"
    /\ Cardinality(ObjectsOf(th[t].retries)) < MaxObjectsPerKey
    /\ objects' = objects \cup {NewSession(th[t].retries)}
    /\ _session' = StoreSession(th[t].retries, NewSession(th[t].retries))
    /\ th' = [th EXCEPT ![t].session = Some(NewSession(th[t].retries)),
                        ![t].pc = "exit"]
    /\ UNCHANGED <<ctor, client, _get_session_lock, requested>>

\* The with block left without releasing the lock.
ReleaseLockKept(t) ==
    /\ th[t].pc = "exit"
    /\ IF th[t].op = "command"
         THEN th' = [th EXCEPT ![t].pc = "loop", ![t].loop = 1]
         ELSE th' = [th EXCEPT ![t].pc = "idle", ![t].result = "returned"]
    /\ UNCHANGED <<ctor, client, pool, requested>>

\* Leaving the with block: the lock is released and the session returned, to
\* the caller of _get_session or to line 146 of command.
ReleaseLock(t) ==
    /\ th[t].pc = "exit"
    /\ _get_session_lock' = 0
    /\ IF th[t].op = "command"
         THEN th' = [th EXCEPT ![t].pc = "loop", ![t].loop = 1]
         ELSE th' = [th EXCEPT ![t].pc = "idle", ![t].result = "returned"]
    /\ UNCHANGED <<ctor, client, _session, objects, requested>>

\* ------------------------------------------------------------ command (136-168)
\* A call of command(cmd, retries) by a user of the constructed client.
CallCommand(t, retries, timeout_cmd) ==
    /\ cpc = "done"
    /\ th[t].pc = "idle"
    /\ th' = [th EXCEPT ![t] = StartCommand(retries, timeout_cmd, "user")]
    /\ requested' = requested \cup {EffectiveRetries(retries)}
    /\ UNCHANGED <<ctor, client, pool>>

\* range(1, 1 + retries): one pass too few.
InRangeShort(loop, retries) == 1 <= loop /\ loop < 1 + retries

\* Line 148: loop in range(1, 2 + retries).
InRange(loop, retries) == 1 <= loop /\ loop < 2 + retries

\* Lines 151-157: the exception one attempt raises, "none" when it reaches the
\* break of line 158.
AttemptExc(o) ==
    IF o.exc # "none" THEN o.exc
    ELSE IF raise_for_status(o.status) THEN "HTTPError"
    ELSE "none"

\* Line 159: the except clause of the attempt.
CommandCatches(exc) == exc = "HTTPError"

\* loop < retries: the last retry is given up.
RetryAgainStrict(loop, retries) == loop < retries

\* Line 160: whether a caught failure is retried.
RetryAgain(loop, retries) == loop <= retries

\* The GET sent with a Basic credential built on the spot instead of _token.
AfterGetBasicAuth(r, o) ==
    [r EXCEPT !.attempts = r.attempts + 1,
              !.auth = "HTTPBasicAuth",
              !.last = o.exc,
              !.resp = IF o.exc = "none" THEN Some(<<r.attempts + 1, o.status>>)
                       ELSE r.resp]

\* The locals of command after one more session.get: resp is bound only when
\* session.get returned.
AfterGet(r, o) ==
    [r EXCEPT !.attempts = r.attempts + 1,
              !.auth = _token,
              !.last = o.exc,
              !.resp = IF o.exc = "none" THEN Some(<<r.attempts + 1, o.status>>)
                       ELSE r.resp]

Return(r, value) ==
    [r EXCEPT !.pc = "idle", !.result = "returned", !.ret = value]
Raise(r, exc, err) ==
    [r EXCEPT !.pc = "idle", !.result = "raised", !.exc = exc, !.err = err]

\* Lines 149-168: one pass of the loop body.
Attempt(t, o) ==
    /\ th[t].pc = "loop"
    /\ InRange(th[t].loop, th[t].retries)
    /\ LET r == AfterGet(th[t], o)
           failed == [r EXCEPT !.fails = r.fails + 1]
           errOf == IF o.exc = "none" THEN r.resp ELSE None
       IN  th' = [th EXCEPT ![t] =
             IF AttemptExc(o) = "none"
               THEN Return(r, r.resp)
             ELSE IF CommandCatches(AttemptExc(o))
               THEN IF RetryAgain(r.loop, r.retries)
                      THEN [failed EXCEPT !.loop = r.loop + 1]
                      ELSE Raise(failed, AttemptExc(o), errOf)
             ELSE Raise(failed, AttemptExc(o), errOf)]
    /\ UNCHANGED <<ctor, client, pool, requested>>

\* resp bound to None before the loop: an empty range returns None.
LoopExhaustedReturnsNone(t) ==
    /\ th[t].pc = "loop"
    /\ ~InRange(th[t].loop, th[t].retries)
    /\ th' = [th EXCEPT ![t] = Return(th[t], th[t].resp)]
    /\ UNCHANGED <<ctor, client, pool, requested>>

\* The range of line 148 is used up without a break: lines 167-168 read resp,
\* which is unbound when no attempt was made.
LoopExhausted(t) ==
    /\ th[t].pc = "loop"
    /\ ~InRange(th[t].loop, th[t].retries)
    /\ th' = [th EXCEPT ![t] =
                IF th[t].resp = None
                  THEN Raise(th[t], "UnboundLocalError", None)
                  ELSE Return(th[t], th[t].resp)]
    /\ UNCHANGED <<ctor, client, pool, requested>>

\* ------------------------------------------------------ command_audio (170-185)
\* The handler catching ConnectTimeout instead of ReadTimeout.
AudioCatchesConnectTimeout(exc) == exc = "ConnectTimeout"

\* Line 184: the except clause.
AudioCatches(exc) == exc = "ReadTimeout"

\* Lines 172-174: a call of command_audio up to its requests.post.
CallCommandAudio(t) ==
    /\ cpc = "done"
    /\ th[t].pc = "idle"
    /\ th' = [th EXCEPT ![t] =
                [Idle EXCEPT !.pc = "post", !.op = "command_audio"]]
    /\ UNCHANGED <<ctor, client, pool, requested>>

\* The locals of command_audio after its requests.post (lines 177-183).
AfterPost(r, o) ==
    [r EXCEPT !.posts = r.posts + 1,
              !.auth = _token,
              !.last = o.exc,
              !.resp = IF o.exc = "none" THEN Some(<<r.posts + 1, o.status>>)
                       ELSE None]

\* The POST followed by raise_for_status(), as in command.
PostRaiseForStatus(t, o) ==
    /\ th[t].pc = "post"
    /\ LET r == AfterPost(th[t], o)
       IN  th' = [th EXCEPT ![t] =
             IF o.exc = "none" /\ raise_for_status(o.status)
               THEN Raise(r, "HTTPError", r.resp)
             ELSE IF o.exc = "none" \/ AudioCatches(o.exc)
               THEN Return(r, None)
               ELSE Raise(r, o.exc, None)]
    /\ UNCHANGED <<ctor, client, pool, requested>>

\* Lines 176-185: the POST and the handler.
Post(t, o) ==
    /\ th[t].pc = "post"
    /\ LET r == AfterPost(th[t], o)
       IN  th' = [th EXCEPT ![t] =
             IF o.exc = "none" \/ AudioCatches(o.exc)
               THEN Return(r, None)
               ELSE Raise(r, o.exc, None)]
    /\ UNCHANGED <<ctor, client, pool, requested>>

\* ------------------------------------------------------------ specifications
Construct ==
    \/ \E rc \in RetriesConnectionArgs : Http__init__(rc, None)
    \/ \E o \in Outcomes : BasicProbe(o)
    \/ \E o \in Outcomes : DigestProbe(o)
    \/ SetNameBegin
    \/ \E field \in {"present", "absent"} : MachineNameDone(field)
    \/ \E field \in {"present", "absent"} : SerialNumberDone(field)

ThreadStep(t) ==
    \/ \E retries \in RetryArgs : CallCommand(t, retries, None)
    \/ \E k \in RetryValues : Call_get_session(t, k)
    \/ CallCommandAudio(t)
    \/ AcquireLock(t)
    \/ LookupSession(t)
    \/ CreateSession(t)
    \/ ReleaseLock(t)
    \/ \E o \in CommandOutcomes : Attempt(t, o)
    \/ LoopExhausted(t)
    \/ \E o \in CommandOutcomes : Post(t, o)

\* One client from its construction on, used by the thread that built it, with
\* every timeout left at its default.
Next == Construct \/ ThreadStep(Main)

Spec == Init /\ [][Next]_vars

\* One client from its construction on, with the retry counts and the timeouts
\* of the constructor and of command passed explicitly or omitted.
NextArgs ==
    \/ \E rc \in RetriesConnectionArgs, tp \in TimeoutArgs : Http__init__(rc, tp)
    \/ \E o \in Outcomes : BasicProbe(o)
    \/ \E o \in Outcomes : DigestProbe(o)
    \/ SetNameBegin
    \/ \E field \in {"present", "absent"} : MachineNameDone(field)
    \/ \E field \in {"present", "absent"} : SerialNumberDone(field)
    \/ \E retries \in RetryArgs, timeout_cmd \in TimeoutArgs :
          CallCommand(Main, retries, timeout_cmd)
    \/ AcquireLock(Main)
    \/ LookupSession(Main)
    \/ CreateSession(Main)
    \/ ReleaseLock(Main)
    \/ \E o \in CommandOutcomes : Attempt(Main, o)
    \/ LoopExhausted(Main)

SpecArgs == Init /\ [][NextArgs]_vars

\* A client right after a construction that negotiated Digest and read both
\* identity fields at the first attempt, with the default retry count.
Constructed ==
    [Idle EXCEPT !.op = "command", !.ctx = "serial_number",
                 !.retries = MAX_RETRY_HTTP_CONNECTION,
                 !.timeout = TIMEOUT_HTTP_PROTOCOL,
                 !.session = Some(<<MAX_RETRY_HTTP_CONNECTION, 1>>),
                 !.loop = 1, !.attempts = 1,
                 !.resp = Some(<<1, 200>>), !.auth = "HTTPDigestAuth",
                 !.result = "returned", !.ret = Some(<<1, 200>>)]

InitPool ==
    /\ cpc = "done"
    /\ ctor_exc = "none"
    /\ probes =
         << [scheme |-> "basic", exc |-> "none", status |-> 401,
             text |-> <<"O", "K">>],
            [scheme |-> "digest", exc |-> "none", status |-> 200,
             text |-> <<"O", "K">>] >>
    /\ _retries_default = MAX_RETRY_HTTP_CONNECTION
    /\ _timeout_default = TIMEOUT_HTTP_PROTOCOL
    /\ _authentication = "digest"
    /\ _token = "HTTPDigestAuth"
    /\ _name = "name"
    /\ _serial = "serial"
    /\ _session = (MAX_RETRY_HTTP_CONNECTION :> <<MAX_RETRY_HTTP_CONNECTION, 1>>)
    /\ _get_session_lock = 0
    /\ objects = {<<MAX_RETRY_HTTP_CONNECTION, 1>>}
    /\ requested = {MAX_RETRY_HTTP_CONNECTION}
    /\ th = [t \in Threads |-> IF t = Main THEN Constructed ELSE Idle]

PoolStep(t) ==
    \/ \E k \in RetryValues : Call_get_session(t, k)
    \/ AcquireLock(t)
    \/ LookupSession(t)
    \/ CreateSession(t)
    \/ ReleaseLock(t)

\* The threads of one constructed client calling _get_session concurrently.
NextPool == \E t \in Threads : PoolStep(t)

SpecPool == InitPool /\ [][NextPool]_vars

\* Responses of the device in the executions checked for progress.
LiveOutcomes ==
    {o \in CommandOutcomes : o.exc = "none" /\ o.status \in {200, 500}}
LiveRetryArgs == {None, Some(MaxRetry)}

LiveStep(t) ==
    \/ \E retries \in LiveRetryArgs : CallCommand(t, retries, None)
    \/ Call_get_session(t, MaxRetry)
    \/ AcquireLock(t)
    \/ LookupSession(t)
    \/ CreateSession(t)
    \/ ReleaseLock(t)
    \/ \E o \in LiveOutcomes : Attempt(t, o)

\* The threads of one constructed client calling command and _get_session.
NextLive == \E t \in Threads : LiveStep(t)

\* Fair scheduling: a thread inside the with block keeps running, and a thread
\* waiting for a lock that is free again and again obtains it.
FairLive ==
    \A t \in Threads :
        /\ SF_vars(AcquireLock(t))
        /\ WF_vars(LookupSession(t))
        /\ WF_vars(CreateSession(t))
        /\ WF_vars(ReleaseLock(t))

SpecLive == InitPool /\ [][NextLive]_vars /\ FairLive

\* InitPool is a state construction ends in.
InitPoolUnreached == ~InitPool

\* ------------------------------------------------------------------- claims
Commands == {t \in Threads : th[t].op = "command"}
IsHTTPErrorStatus(status) == status >= 400
IsSuccessStatus(status) == 200 <= status /\ status < 300
\* Every GET of the call so far came back with an HTTP error status.
AllHTTPErrors(r) ==
    /\ r.fails = r.attempts
    /\ r.attempts > 0 =>
         /\ r.last = "none"
         /\ r.resp # None
         /\ r.resp[1][1] = r.attempts
         /\ IsHTTPErrorStatus(r.resp[1][2])
Timeouts == {"ReadTimeout", "ConnectTimeout"}

\* C1: for every retry count r >= 0 passed to command, r = 0 included, a call
\* whose GETs all return an HTTP error status makes exactly r + 1 GETs and then
\* raises the HTTP error of the last one.
C1_AlwaysFailingMakesRPlusOneAttempts ==
    \A t \in Commands :
        (th[t].arg # None /\ th[t].arg[1] >= 0 /\ AllHTTPErrors(th[t])) =>
            /\ th[t].attempts <= th[t].arg[1] + 1
            /\ th[t].pc = "idle" =>
                 /\ th[t].attempts = th[t].arg[1] + 1
                 /\ th[t].result = "raised"
                 /\ th[t].exc = "HTTPError"
                 /\ th[t].err = th[t].resp

\* C2: when the first k - 1 GETs of a command call return an HTTP error status
\* and the k-th succeeds, k <= r + 1, the call has made exactly k GETs, makes no
\* further one and returns the response of the k-th; it does not give up with
\* an HTTP error before r + 1 GETs have failed.
C2_SuccessOnAttemptKReturnsIt ==
    \A t \in Commands :
        /\ (th[t].resp # None /\ IsSuccessStatus(th[t].resp[1][2])) =>
             /\ th[t].pc = "idle"
             /\ th[t].result = "returned"
             /\ th[t].ret = th[t].resp
             /\ th[t].resp[1][1] = th[t].attempts
             /\ th[t].fails = th[t].attempts - 1
             /\ th[t].attempts <= th[t].retries + 1
        /\ th[t].result = "returned" =>
             (th[t].ret # None /\ ~IsHTTPErrorStatus(th[t].ret[1][2]))
        /\ (th[t].pc = "loop" /\ th[t].fails <= th[t].retries) =>
             ENABLED (\E o \in CommandOutcomes : Attempt(t, o))
        /\ (/\ th[t].pc = "loop"
            /\ th[t].arg # None
            /\ th[t].arg[1] >= 0
            /\ th[t].fails <= th[t].arg[1]) =>
             ENABLED (\E o \in CommandOutcomes : Attempt(t, o))

C2_Witness ==
    \E t \in Commands :
        /\ th[t].arg = Some(MaxRetry)
        /\ th[t].result = "returned"
        /\ th[t].attempts = MaxRetry + 1
        /\ th[t].fails = MaxRetry
        /\ th[t].ret = Some(<<MaxRetry + 1, 200>>)

\* C3: threads calling _get_session with the same retry count, in any
\* interleaving, create one session object for that key and all receive it, as
\* does every later call.
C3_OneSessionPerKey ==
    /\ \A o \in objects : Cardinality(ObjectsOf(o[1])) = 1
    /\ \A k \in DOMAIN _session : _session[k] \in objects
    /\ \A t \in Threads :
         th[t].session # None =>
             /\ th[t].retries \in DOMAIN _session
             /\ th[t].session = Some(_session[th[t].retries])
    /\ \A t1, t2 \in Threads :
         (/\ th[t1].session # None
          /\ th[t2].session # None
          /\ th[t1].retries = th[t2].retries) => th[t1].session = th[t2].session

C3_Witness ==
    \E t1, t2 \in Threads :
        /\ t1 # t2
        /\ th[t1].op = "_get_session"
        /\ th[t2].op = "_get_session"
        /\ th[t1].retries = th[t2].retries
        /\ th[t1].retries # _retries_default
        /\ th[t1].result = "returned"
        /\ th[t2].pc = "exit"
        /\ th[t1].session # None
        /\ th[t1].session = th[t2].session

CleanText == <<"O", "K">>
MarkedTexts ==
    { <<"I", "n", "v", "a", "l", "i", "d">>, <<"E", "R", "R", "O", "R">>,
      <<"e", "r", "r", "o", "r">> }

\* C4: a Basic probe answered 2xx makes the method Basic with no Digest probe;
\* a Basic probe answered with an HTTP error status followed by a Digest probe
\* answered 2xx with a clean body makes the method Digest and the credential
\* the Digest one.
C4_NegotiationOutcome ==
    /\ (/\ Len(probes) >= 1
        /\ probes[1].exc = "none"
        /\ IsSuccessStatus(probes[1].status)) =>
           /\ Len(probes) = 1
           /\ cpc # "digest_probe"
           /\ _authentication = "basic"
           /\ _token = "HTTPBasicAuth"
    /\ (/\ Len(probes) = 2
        /\ probes[1].exc = "none"
        /\ IsHTTPErrorStatus(probes[1].status)
        /\ probes[2].exc = "none"
        /\ IsSuccessStatus(probes[2].status)
        /\ probes[2].text = CleanText) =>
           /\ probes[1].scheme = "basic"
           /\ probes[2].scheme = "digest"
           /\ _authentication = "digest"
           /\ _token = "HTTPDigestAuth"

C4_Witness ==
    /\ cpc = "done"
    /\ Len(probes) = 2
    /\ probes[1].status = 401
    /\ probes[2].status = 200
    /\ _authentication = "digest"
    /\ _token = "HTTPDigestAuth"

\* C5: construction raises and yields no client when the Basic probe returns
\* an HTTP error status and the Digest probe either returns one too or returns
\* 2xx with 'invalid' or 'error' in its body, in any letter case.
C5_ConstructionFails ==
    (/\ Len(probes) = 2
     /\ probes[1].exc = "none"
     /\ IsHTTPErrorStatus(probes[1].status)
     /\ probes[2].exc = "none"
     /\ \/ IsHTTPErrorStatus(probes[2].status)
        \/ IsSuccessStatus(probes[2].status) /\ probes[2].text \in MarkedTexts) =>
        /\ cpc = "failed"
        /\ ctor_exc = "HTTPError"
        /\ _token = "unset"
        /\ \A t \in Threads : th[t] = Idle

C5_Witness ==
    /\ cpc = "failed"
    /\ Len(probes) = 2
    /\ probes[1].status = 401
    /\ probes[2].status = 200
    /\ probes[2].text = <<"I", "n", "v", "a", "l", "i", "d">>

\* C6: a GET of command that ends in a timeout is retried like one that ends in
\* an HTTP error: the timeout reaches the caller only from GET r + 1.
C6_TimeoutIsRetried ==
    \A t \in Commands :
        (th[t].result = "raised" /\ th[t].exc \in Timeouts) =>
            th[t].attempts = th[t].retries + 1

\* C7: command_audio makes exactly one POST per call, and returns normally when
\* that POST ends in a read-timeout.
C7_AudioSinglePost ==
    \A t \in Threads :
        th[t].op = "command_audio" =>
            /\ th[t].posts <= 1
            /\ th[t].pc = "idle" => th[t].posts = 1
            /\ th[t].posts = 1 => th[t].pc = "idle"
            /\ (th[t].posts = 1 /\ th[t].last = "ReadTimeout") =>
                 /\ th[t].result = "returned"
                 /\ th[t].exc = "none"

C7_Witness ==
    \E t \in Threads :
        /\ th[t].op = "command_audio"
        /\ th[t].posts = 1
        /\ th[t].last = "ReadTimeout"
        /\ th[t].result = "returned"

\* C8: identity resolution never makes construction fail: whatever fails while
\* the name or the serial is read, construction ends with both left empty.
C8_IdentityNeverFatal ==
    /\ _token # "unset" => cpc # "failed"
    /\ (cpc = "done" /\ (_name = "None" \/ _serial = "None")) =>
           (_name = "None" /\ _serial = "None")

\* C9: once construction is complete the method and the credential keep their
\* values, no negotiation probe is issued, and every GET and POST presents the
\* credential of construction.
C9_AuthFixedAfterConstruction ==
    /\ [][cpc = "done" =>
            /\ _authentication' = _authentication
            /\ _token' = _token
            /\ probes' = probes
            /\ cpc' = "done"]_vars
    /\ [](cpc = "done" =>
            \A t \in Threads : th[t].attempts + th[t].posts > 0 =>
                                   th[t].auth = _token)

C9_Witness ==
    /\ cpc = "done"
    /\ _authentication = "digest"
    /\ \E t \in Commands :
         /\ th[t].ctx = "user"
         /\ th[t].result = "raised"
         /\ th[t].exc = "HTTPError"
         /\ th[t].err = Some(<<th[t].attempts, 401>>)
         /\ th[t].auth = "HTTPDigestAuth"

\* C10: command raises an HTTP error only when the retry budget is used up:
\* with effective retry count r, exactly r + 1 GETs were made and all failed.
C10_HTTPErrorOnlyAfterBudget ==
    \A t \in Commands :
        (th[t].result = "raised" /\ th[t].exc = "HTTPError") =>
            /\ th[t].attempts = th[t].retries + 1
            /\ th[t].fails = th[t].retries + 1
            /\ th[t].err = Some(<<th[t].retries + 1, th[t].err[1][2]>>)
            /\ IsHTTPErrorStatus(th[t].err[1][2])

C10_Witness ==
    \E t \in Commands :
        /\ th[t].arg = Some(MaxRetry)
        /\ th[t].result = "raised"
        /\ th[t].exc = "HTTPError"
        /\ th[t].attempts = MaxRetry + 1

\* C11: in command an explicit retry count or timeout overrides the client
\* default for every explicit value, 0 included: the session is fetched for it,
\* the loop runs with it and the GETs use the explicit timeout; the default is
\* used only when the argument is omitted.
C11_ExplicitOverridesDefault ==
    \A t \in Commands :
        /\ th[t].arg # None =>
             /\ th[t].retries = th[t].arg[1]
             /\ th[t].session # None => th[t].session[1][1] = th[t].arg[1]
        /\ th[t].arg = None => th[t].retries = _retries_default
        /\ th[t].timeout_arg # None => th[t].timeout = th[t].timeout_arg[1]
        /\ th[t].timeout_arg = None => th[t].timeout = _timeout_default

\* The probe of the scheme negotiation committed to.
Committed == IF _token = "HTTPBasicAuth" THEN 1 ELSE 2
CleanSuccess(p) ==
    p.exc = "none" /\ IsSuccessStatus(p.status) /\ p.text \notin MarkedTexts

\* C12: when negotiation succeeds the scheme committed to is the first whose
\* probe returned 2xx with no 'invalid' or 'error' in its body; a Basic probe
\* answered 2xx with such a body does not make Basic win.
C12_FirstCleanSchemeWins ==
    _token # "unset" =>
        /\ Committed <= Len(probes)
        /\ CleanSuccess(probes[Committed])
        /\ \A j \in 1..(Committed - 1) : ~CleanSuccess(probes[j])

\* C13: a negotiation probes each scheme at most once and in a fixed order: at
\* most one Basic probe, at most one Digest probe, Digest after Basic.
C13_EachSchemeOnceInOrder ==
    /\ Len(probes) <= 2
    /\ Len(probes) >= 1 => probes[1].scheme = "basic"
    /\ Len(probes) = 2 => probes[2].scheme = "digest"
    /\ cpc \in {"__init__", "basic_probe"} => probes = <<>>
    /\ cpc = "digest_probe" => Len(probes) = 1

C13_Witness ==
    /\ Len(probes) = 2
    /\ probes[1].scheme = "basic"
    /\ probes[2].scheme = "digest"
    /\ cpc = "failed"

\* The order of the steps of Http.__init__.
Rank(c) ==
    CASE c = "__init__" -> 0
      [] c = "basic_probe" -> 1
      [] c = "digest_probe" -> 2
      [] c = "_set_name" -> 3
      [] c = "machine_name" -> 4
      [] c = "serial_number" -> 5
      [] OTHER -> 6

\* C16: negotiation runs once per construction, identity resolution runs once
\* and only after negotiation succeeded; when negotiation fails no identity
\* request and no command GET is issued and the session map stays empty.
C16_ConstructionOrder ==
    /\ [](/\ (cpc \in {"_set_name", "machine_name", "serial_number", "done"})
               => _token # "unset"
          /\ (\E t \in Threads : th[t] # Idle) => _token # "unset"
          /\ (cpc = "failed" /\ _token = "unset") =>
               /\ \A t \in Threads : th[t] = Idle
               /\ _session = <<>>
               /\ objects = {}
               /\ requested = {})
    /\ [][/\ Rank(cpc') >= Rank(cpc)
          /\ probes' # probes => (cpc \in {"basic_probe", "digest_probe"}
                                    /\ Rank(cpc') > Rank(cpc))
          /\ _token' # _token => (_token = "unset" /\ Rank(cpc') > Rank(cpc))
          /\ (th'[Main].ctx = "machine_name" /\ th[Main].ctx # "machine_name")
               => (cpc = "_set_name" /\ cpc' = "machine_name")
          /\ (th'[Main].ctx = "serial_number" /\ th[Main].ctx # "serial_number")
               => (cpc = "machine_name" /\ cpc' = "serial_number")]_vars

C16_Witness ==
    /\ cpc = "done"
    /\ _token = "HTTPDigestAuth"
    /\ _name = "name"
    /\ _serial = "serial"
    /\ th[Main].ctx = "serial_number"

\* C17: the Digest probe is issued exactly when the Basic probe completed with
\* an HTTP error status; a Basic probe that fails otherwise (connection
\* failure, timeout) aborts construction with that failure and no Digest probe.
C17_DigestOnlyAfterHTTPError ==
    /\ (cpc = "digest_probe" \/ Len(probes) >= 2) =>
         /\ probes[1].scheme = "basic"
         /\ probes[1].exc = "none"
         /\ IsHTTPErrorStatus(probes[1].status)
    /\ (/\ Len(probes) >= 1
        /\ probes[1].exc = "none"
        /\ IsHTTPErrorStatus(probes[1].status)) =>
         \/ cpc = "digest_probe" /\ ENABLED (\E o \in Outcomes : DigestProbe(o))
         \/ Len(probes) = 2 /\ probes[2].scheme = "digest"
    /\ (Len(probes) >= 1 /\ probes[1].exc # "none") =>
         /\ Len(probes) = 1
         /\ cpc = "failed"
         /\ ctor_exc = probes[1].exc
         /\ _token = "unset"

C17_Witness ==
    /\ cpc = "failed"
    /\ Len(probes) = 1
    /\ probes[1].scheme = "basic"
    /\ probes[1].exc = "ConnectionError"
    /\ ctor_exc = "ConnectionError"

\* C14: the retry-count -> session map only grows: a key once present keeps
\* its session object whatever any thread does later, and every key is a retry
\* count _get_session was called with.
C14_SessionMapOnlyGrows ==
    /\ [](/\ DOMAIN _session \subseteq requested
          /\ \A k \in DOMAIN _session :
               _session[k] \in objects /\ _session[k][1] = k)
    /\ [][\A k \in DOMAIN _session :
            k \in DOMAIN _session' /\ _session'[k] = _session[k]]_vars

C14_Witness ==
    /\ Cardinality(DOMAIN _session) >= 3
    /\ \E t1, t2 \in Threads :
         /\ t1 # t2
         /\ th[t1].op = "_get_session"
         /\ th[t2].op = "_get_session"
         /\ th[t1].result = "returned"
         /\ th[t2].result = "returned"
         /\ th[t1].retries # th[t2].retries

\* C15: command calls whose requested retry counts differ, 0 included, go
\* through different session objects, each created with the call's own retry
\* count.
C15_DistinctCountsDistinctSessions ==
    /\ \A t \in Commands :
         (th[t].arg # None /\ th[t].session # None) =>
             th[t].session[1][1] = th[t].arg[1]
    /\ \A t1, t2 \in Commands :
         (/\ th[t1].arg # None
          /\ th[t2].arg # None
          /\ th[t1].arg # th[t2].arg
          /\ th[t1].session # None
          /\ th[t2].session # None) => th[t1].session # th[t2].session

InLock(t) == th[t].pc \in {"try", "except", "exit"}

\* C19: the session lock is held only inside _get_session and released on
\* every way out: no thread holds it while it performs an HTTP request, and
\* under fair scheduling every thread waiting for it obtains its session.
C19_LockOnlyInsideGetSession ==
    /\ [](\A t \in Threads :
            /\ _get_session_lock = t <=> InLock(t)
            /\ th[t].pc \in {"loop", "post"} => _get_session_lock # t)
    /\ \A t \in Threads : (th[t].pc = "enter") ~> (th[t].session # None)

C19_Witness ==
    \E t1, t2 \in Threads :
        /\ t1 # t2
        /\ th[t1].pc = "loop"
        /\ th[t1].attempts >= 1
        /\ _get_session_lock = t2
        /\ th[t2].pc = "except"

\* C18: a command call that returns normally returns the response of a
\* successful GET made during that call, so it has made at least one GET; this
\* holds for every retry count, negative ones included, whose loop is empty.
C18_NormalReturnHasSuccessfulGet ==
    \A t \in Commands :
        /\ th[t].result = "returned" =>
             /\ th[t].attempts >= 1
             /\ th[t].last = "none"
             /\ th[t].ret # None
             /\ th[t].ret[1][1] = th[t].attempts
             /\ ~IsHTTPErrorStatus(th[t].ret[1][2])
        /\ (th[t].pc = "idle" /\ th[t].attempts = 0) => th[t].result = "raised"
        /\ (th[t].pc = "idle" /\ th[t].retries < 0) => th[t].result = "raised"

C18_Witness ==
    \E t \in Commands :
        /\ th[t].ctx = "user"
        /\ th[t].arg = Some(1)
        /\ th[t].result = "returned"
        /\ th[t].attempts = 2
        /\ th[t].ret = Some(<<2, 200>>)

\* C20: command_audio does not surface HTTP error statuses: a POST answered
\* with a non-2xx status returns normally, as for 2xx; the call raises only on
\* failures other than a read-timeout.
C20_AudioIgnoresStatus ==
    \A t \in Threads :
        (th[t].op = "command_audio" /\ th[t].posts = 1) =>
            /\ th[t].last = "none" =>
                 (th[t].result = "returned" /\ th[t].exc = "none")
            /\ th[t].result = "raised" <=>
                 th[t].last \in (TransportErrors \ {"ReadTimeout"})
            /\ th[t].result = "raised" => th[t].exc = th[t].last

C20_Witness ==
    \E t \in Threads :
        /\ th[t].op = "command_audio"
        /\ th[t].posts = 1
        /\ th[t].resp = Some(<<1, 500>>)
        /\ th[t].result = "returned"
====
